---------------------------- MODULE Spec2Model ----------------------------
(***************************************************************************)
(* piSolar: the Renogy device-reading subsystem.                           *)
(*                                                                         *)
(* One reader object performs read cycles.  A read cycle is one call of    *)
(* read(): the retry loop around single attempts.  The three read()        *)
(* implementations of the readers (RenogyReader.read, ModbusReader.read,   *)
(* BluetoothReader.read) and the one of the Bluetooth-only RenogySensor    *)
(* (_read_async behind read) are the same loop around different attempt    *)
(* routines; `impl` says which one this reader runs.                       *)
(*                                                                         *)
(* Numbers with a fractional scale are kept in hundredths (13.2 V is       *)
(* 1320): round(raw * 0.1, 2) and round(raw * 0.01, 2) are exactly raw/10  *)
(* and raw/100 for every 16-bit raw value.                                 *)
(***************************************************************************)
EXTENDS Integers, Sequences, FiniteSets, TLC

\* ------------------------------------------------------------------ bounds

\* max_retries of the configuration ranges over -1 .. MaxRetriesBound
MaxRetriesBound == 3

\* the attempt reads the first MapLen entries of REGISTER_MAP
MapLen == 2

\* ------------------------------------------------- register map and decode

\* scale factors of REGISTER_MAP, in hundredths: 1 -> 100, 0.1 -> 10, 0.01 -> 1
REGISTER_MAP ==
  << [addr |-> 256, field |-> "battery_percentage",            scale |-> 100],
     [addr |-> 257, field |-> "battery_voltage",               scale |-> 10],
     [addr |-> 258, field |-> "battery_current",               scale |-> 1],
     [addr |-> 260, field |-> "load_voltage",                  scale |-> 10],
     [addr |-> 261, field |-> "load_current",                  scale |-> 1],
     [addr |-> 262, field |-> "load_power",                    scale |-> 100],
     [addr |-> 263, field |-> "pv_voltage",                    scale |-> 10],
     [addr |-> 264, field |-> "pv_current",                    scale |-> 1],
     [addr |-> 265, field |-> "pv_power",                      scale |-> 100],
     [addr |-> 267, field |-> "battery_min_voltage_today",     scale |-> 10],
     [addr |-> 268, field |-> "battery_max_voltage_today",     scale |-> 10],
     [addr |-> 269, field |-> "max_charging_current_today",    scale |-> 1],
     [addr |-> 270, field |-> "max_discharging_current_today", scale |-> 1],
     [addr |-> 271, field |-> "max_charging_power_today",      scale |-> 100],
     [addr |-> 272, field |-> "max_discharging_power_today",   scale |-> 100],
     [addr |-> 273, field |-> "charging_amp_hours_today",      scale |-> 100],
     [addr |-> 274, field |-> "discharging_amp_hours_today",   scale |-> 100],
     [addr |-> 275, field |-> "power_generation_today",        scale |-> 10],
     [addr |-> 276, field |-> "power_consumption_today",       scale |-> 10] >>

\* the registers one attempt of the model reads
Registers == SubSeq(REGISTER_MAP, 1, MapLen)

CHARGING_STATUS ==
  [c \in 0..6 |-> CASE c = 0 -> "deactivated"
                    [] c = 1 -> "activated"
                    [] c = 2 -> "mppt"
                    [] c = 3 -> "equalizing"
                    [] c = 4 -> "boost"
                    [] c = 5 -> "floating"
                    [] c = 6 -> "current_limiting"]

\* a Python value: an int, a float (v in hundredths), a str or None
IntVal(n)   == [t |-> "int",   v |-> n]
FloatVal(h) == [t |-> "float", v |-> h]
StrVal(s)   == [t |-> "str",   v |-> s]
NoneVal     == [t |-> "None",  v |-> 0]

\* a variable that holds nothing yet
NoValue == [t |-> "unset", v |-> 0]

\* a scaling that cuts the fraction off
ScaleValueTruncates(raw, scale) == IntVal((raw * scale) \div 100)

\* value = raw_value * scale_factor; rounded to 2 places when the scale is a float
ScaleValue(raw, scale) ==
  IF scale = 100 THEN IntVal(raw) ELSE FloatVal(raw * scale)

\* a decode of the byte as two's complement
ToSignedTwosComplement(value) ==
  IF (value \div 128) % 2 = 1 THEN (value % 256) - 256 ELSE value

\* if value & 0x80: return -(value & 0x7F); return value
_to_signed_8bit(value) ==
  IF (value \div 128) % 2 = 1 THEN -(value % 128) ELSE value

\* a decode with the two bytes swapped
ParseTemperatureSwapped(raw_value) ==
  << _to_signed_8bit(raw_value % 256), _to_signed_8bit((raw_value \div 256) % 256) >>

\* (controller_temperature, battery_temperature)
_parse_temperature_register(raw_value) ==
  << _to_signed_8bit((raw_value \div 256) % 256), _to_signed_8bit(raw_value % 256) >>

\* a lookup of the whole register instead of its low byte
StatusNameWholeRegister(raw) ==
  IF raw \in DOMAIN CHARGING_STATUS
    THEN CHARGING_STATUS[raw]
    ELSE "unknown_" \o ToString(raw)

\* status_code = registers[0] & 0xFF; CHARGING_STATUS.get(status_code, f"unknown_{status_code}")
StatusName(raw) ==
  LET status_code == raw % 256
  IN  IF status_code \in DOMAIN CHARGING_STATUS
        THEN CHARGING_STATUS[status_code]
        ELSE "unknown_" \o ToString(status_code)

\* ------------------------------------------------------------ field mappings

\* a dict: a function from its keys
EmptyMap == [k \in {} |-> IntVal(0)]

Put(m, k, val) == [x \in (DOMAIN m) \cup {k} |-> IF x = k THEN val ELSE m[x]]

\* keys a transport adds beside the device's data
IsInternalKey(k) == k \in {"__device", "__client", "__scan_ms", "__connect_ms", "__total_ms"}

DataFields(m) == {k \in DOMAIN m : ~IsInternalKey(k)}

\* ------------------------------------------------------------------- errors

\* an exception: its kind and what its message carries beyond the fixed text
Err(kind, detail) == [kind |-> kind, detail |-> detail]

\* last_error before any attempt failed (Python's None)
NoError == Err("None", "")

\* RuntimeError("Failed to read from Renogy device after N attempts: <last_error>")
TerminalError(n, last) == [kind |-> "RetriesExhausted", n |-> n, cause |-> last]

\* the outcome of one attempt routine: a value returned or an exception raised
Ok(val)  == [ok |-> TRUE,  value |-> val]
Fail(e)  == [ok |-> FALSE, error |-> e]
NoRet    == [ok |-> FALSE, error |-> NoError]

\* what read() gave its caller
Pending       == [status |-> "none"]
Returned(val) == [status |-> "returned", value |-> val]
Raised(e)     == [status |-> "raised", error |-> e]

\* -------------------------------------------------------------- environment

Impls == {"base", "modbus", "bluetooth", "sensor"}

UsesBluetooth(i) == i \in {"bluetooth", "sensor"}

RetryChoices == -1 .. MaxRetriesBound

\* raw 16-bit values the device answers a register read with
RegRaw    == {132, 65535}
TempRaw   == {6538, 32768}
StatusRaw == {2, 263}

\* what a register read gives: a result with registers, an error result, an exception
RegOutcomes(raws) == {[res |-> "ok", raw |-> r] : r \in raws}
                       \cup {[res |-> "error", raw |-> 0], [res |-> "raise", raw |-> 0]}

\* parsed_data of a BLE read result
ParsedVoltage == Put(EmptyMap, "battery_voltage", FloatVal(1320))
ParsedFull    == Put(ParsedVoltage, "battery_percentage", IntVal(85))
ParsedChoices == {EmptyMap, ParsedVoltage, ParsedFull}

\* a renogy-ble read result: success, error (None or an exception), parsed_data
BleResults ==
  [success : BOOLEAN, error : {"None", "Connection failed"}, parsed : ParsedChoices]

\* before the BLE client has answered in this attempt
NoBleResult == [success |-> FALSE, error |-> "unset", parsed |-> EmptyMap]

\* what an implementation of the abstract _read_implementation may do
BaseValues == {Put(EmptyMap, "battery_percentage", IntVal(85)),
               Put(EmptyMap, "battery_percentage", IntVal(100))}
BaseErrors == {Err("Unexpected", "timeout"), Err("Unexpected", "io")}

\* elapsed times are not modelled: every timing value is this one
Elapsed == FloatVal(0)

\* -------------------------------------------------------------------- state

VARIABLES
  impl,         \* which read() this reader runs
  max_retries,  \* self._max_retries
  pc,           \* where read() is
  attempt,      \* the loop variable of read()
  last_error,   \* last_error of read()
  result,       \* what the latest read() returned or raised
  apc,          \* where the attempt routine is
  ret,          \* what the latest attempt routine returned or raised
  adapter,      \* what _bluetooth_available() answered in this cycle
  device,       \* the scan's answer in this attempt
  bleResult,    \* the BLE client's read result in this attempt
  client,       \* the ModbusSerialClient of this attempt
  idx,          \* position in the register loop
  data,         \* the data dict of this attempt
  read_errors,  \* read_errors of this attempt
  exc,          \* the exception travelling through the finally block
  openPorts,    \* serial connections open on the port
  cycle,        \* counts since read() was called
  att,          \* counts since the attempt started
  fn,           \* the function a direct call has applied
  arg,          \* the argument of the direct call
  reading,      \* the SolarReading from_raw_data built
  out,          \* what the function called last returned
  _subscribers, \* EventBus._subscribers: event type -> list of handlers
  bus,          \* the publish call in progress, or the latest one
  lastEdit,     \* the latest subscribe or unsubscribe call
  held,         \* the readings a caller holds references to
  rec,          \* the MetricsService.record call in progress, or the latest one
  job,          \* the execution of the Renogy job in progress, or the latest one
  jobs,         \* the jobs of the scheduler: job id -> cron fields
  lastAdd       \* the latest add_job call

loopVars   == << pc, attempt, last_error, result >>
bleVars    == << device, bleResult >>
modbusVars == << client, idx, data, read_errors, exc, openPorts >>
\* the variables of direct calls of the decoders and of the normalizer
callVars   == << fn, arg, reading, out >>
\* the variables of the event bus, of the metrics service and of the run command
appVars    == << _subscribers, bus, lastEdit, held, rec, job, jobs, lastAdd >>
vars == << impl, max_retries, pc, attempt, last_error, result, apc, ret, adapter,
           device, bleResult, client, idx, data, read_errors, exc, openPorts,
           cycle, att, fn, arg, reading, out,
           _subscribers, bus, lastEdit, held, rec, job, jobs, lastAdd >>

\* a dict with no key
EmptyDict == [k \in {} |-> << >>]

\* no publish call yet
NoPublish == [pc |-> "idle", type |-> "none", data |-> NoValue, live |-> FALSE, i |-> 0,
              atBegin |-> << >>, delivered |-> << >>, result |-> "none",
              afterEdit |-> FALSE]

\* no subscribe or unsubscribe call yet
NoEdit == [op |-> "none", type |-> "none", handler |-> "none", raised |-> FALSE,
           before |-> EmptyDict]

\* no record call yet
NoRecord == [pc |-> "idle", readings |-> << >>, i |-> 0, published |-> << >>]

\* the Renogy job has not run yet
NoJob == [pc |-> "idle", retries |-> 0, tick |-> 0, i |-> 0, attempt |-> 0, read |-> << >>,
          published |-> << >>, raised |-> FALSE, earlier |-> FALSE,
          instances |-> 0, skipped |-> 0]

\* no add_job call yet
NoAdd == [calls |-> 0, fields |-> 0, id |-> "none", raised |-> "none", before |-> EmptyDict]

\* the event bus, the metrics service and the scheduler as constructed, unused
AppAtRest ==
  /\ _subscribers = EmptyDict
  /\ bus = NoPublish
  /\ lastEdit = NoEdit
  /\ held = << >>
  /\ rec = NoRecord
  /\ job = NoJob
  /\ jobs = EmptyDict
  /\ lastAdd = NoAdd

\* no direct call of a decoder or of the normalizer
CallsAtRest ==
  /\ fn = "none"
  /\ arg = NoValue
  /\ reading = NoValue
  /\ out = NoValue

NoClient == [created |-> FALSE, open |-> FALSE, connects |-> 0, closes |-> 0]

ZeroCycle == [attempts |-> 0, failures |-> 0, delays |-> 0, probes |-> 0,
              scans |-> 0, reads |-> 0, cancel |-> "none"]
\* regReads: holding-register reads issued; mapReads: those of the register loop;
\* connect, temp, status: what the device answered; okRegs: map fields read well
ZeroAtt   == [scans |-> 0, wraps |-> 0, reads |-> 0, regReads |-> 0, mapReads |-> 0,
              connect |-> "unset", okRegs |-> {}, temp |-> "unset", status |-> "unset"]

Init ==
  /\ impl \in Impls
  /\ max_retries \in RetryChoices
  /\ pc = "idle"
  /\ attempt = 0
  /\ last_error = NoError
  /\ result = Pending
  /\ apc = "none"
  /\ ret = NoRet
  /\ adapter = "unknown"
  /\ device = "unset"
  /\ bleResult = NoBleResult
  /\ client = NoClient
  /\ idx = 0
  /\ data = EmptyMap
  /\ read_errors = 0
  /\ exc = NoError
  /\ openPorts = 0
  /\ cycle = ZeroCycle
  /\ att = ZeroAtt
  /\ fn = "none"
  /\ arg = NoValue
  /\ reading = NoValue
  /\ out = NoValue
  /\ AppAtRest

\* --------------------------------------------------------- the retry loop

\* a loop over range(1, max_retries): one attempt short
LoopHasNextShort(a, n) == a + 1 < n

\* for attempt in range(1, max_retries + 1): is there a next value after a
LoopHasNext(a, n) == a < n

\* a retry test that is one off: no delay after the attempt before the last
ShouldRetrySkipsLast(a, n) == a < n - 1

\* a retry test that sleeps after every failed attempt, the last one too
ShouldRetryAlways(a, n) == TRUE

\* if attempt < self._max_retries: warn and sleep, else log the exhaustion
ShouldRetry(a, n) == a < n

\* an except clause that keeps the first error it saw
KeepFirstError(prev, e) == IF prev.kind = "None" THEN e ELSE prev

\* except Exception as e: last_error = e
NextLastError(prev, e) == e

\* read() awaits its attempt routine; after a cancellation of read() the
\* executor thread of a Modbus attempt is still running it
InFlight == pc \in {"await", "cancelled"}

\* where the attempt routine of an implementation starts
AttemptEntry(i) ==
  CASE i = "base"       -> "impl"
    [] i = "modbus"     -> "new"
    [] UsesBluetooth(i) -> "scan"

\* the attempt routine finished: its outcome, seen by the awaiting read()
AttemptDone(outcome) ==
  /\ apc' = "done"
  /\ ret' = outcome
  /\ cycle' = IF outcome.ok THEN cycle
                            ELSE [cycle EXCEPT !.failures = @ + 1]

\* read() is called: a scheduled tick, or a caller
StartRead ==
  /\ pc \in {"idle", "returned", "raised"}
  /\ pc' = IF UsesBluetooth(impl) THEN "probe" ELSE "loop"
  /\ attempt' = 0
  /\ last_error' = NoError
  /\ result' = Pending
  /\ apc' = "none"
  /\ ret' = NoRet
  /\ adapter' = "unknown"
  /\ cycle' = ZeroCycle
  /\ att' = ZeroAtt
  /\ device' = "unset"
  /\ bleResult' = NoBleResult
  /\ client' = NoClient
  /\ idx' = 0
  /\ data' = EmptyMap
  /\ read_errors' = 0
  /\ exc' = NoError
  /\ UNCHANGED << callVars, appVars, impl, max_retries, openPorts >>

\* a read() that does not look at the probe's answer
AfterProbeIgnored(a) == "loop"

\* where read() goes after _bluetooth_available() answered a
AfterProbe(a) == IF a = "absent" THEN "raised" ELSE "loop"

\* if not _bluetooth_available(): raise RuntimeError("No powered Bluetooth adapter found...")
ProbeAdapter ==
  /\ pc = "probe"
  /\ \E a \in {"present", "absent"} :
       /\ adapter' = a
       /\ pc' = AfterProbe(a)
  /\ result' = IF pc' = "raised" THEN Raised(Err("NoAdapter", "")) ELSE result
  /\ cycle' = [cycle EXCEPT !.probes = @ + 1]
  /\ UNCHANGED << callVars, appVars, impl, max_retries, attempt, last_error, apc, ret,
                  bleVars, modbusVars, att >>

\* the loop takes its next value and calls the attempt routine
LoopEnter ==
  /\ pc = "loop"
  /\ LoopHasNext(attempt, max_retries)
  /\ attempt' = attempt + 1
  /\ pc' = "await"
  /\ apc' = AttemptEntry(impl)
  /\ ret' = NoRet
  /\ cycle' = [cycle EXCEPT !.attempts = @ + 1]
  /\ att' = ZeroAtt
  /\ device' = "unset"
  /\ bleResult' = NoBleResult
  /\ client' = NoClient
  /\ idx' = 0
  /\ data' = EmptyMap
  /\ read_errors' = 0
  /\ exc' = NoError
  /\ UNCHANGED << callVars, appVars, impl, max_retries, last_error, result, adapter, openPorts >>

\* the loop is over: raise RuntimeError(f"Failed to read ... after N attempts: {last_error}")
LoopExhausted ==
  /\ pc = "loop"
  /\ ~LoopHasNext(attempt, max_retries)
  /\ pc' = "raised"
  /\ result' = Raised(TerminalError(max_retries, last_error))
  /\ UNCHANGED << callVars, appVars, impl, max_retries, attempt, last_error, apc, ret, adapter,
                  bleVars, modbusVars, cycle, att >>

\* return await <attempt>: the attempt returned, read() returns its value
ReadReturn ==
  /\ pc = "await"
  /\ apc = "done"
  /\ ret.ok
  /\ pc' = "returned"
  /\ result' = Returned(ret.value)
  /\ UNCHANGED << callVars, appVars, impl, max_retries, attempt, last_error, apc, ret, adapter,
                  bleVars, modbusVars, cycle, att >>

\* except Exception as e: the attempt raised
ReadExcept ==
  /\ pc = "await"
  /\ apc = "done"
  /\ ~ret.ok
  /\ last_error' = NextLastError(last_error, ret.error)
  /\ pc' = IF ShouldRetry(attempt, max_retries) THEN "sleep" ELSE "loop"
  /\ UNCHANGED << callVars, appVars, impl, max_retries, attempt, result, apc, ret, adapter,
                  bleVars, modbusVars, cycle, att >>

\* await asyncio.sleep(delay) is over
Sleep ==
  /\ pc = "sleep"
  /\ pc' = "loop"
  /\ cycle' = [cycle EXCEPT !.delays = @ + 1]
  /\ UNCHANGED << callVars, appVars, impl, max_retries, attempt, last_error, result, apc, ret, adapter,
                  bleVars, modbusVars, att >>

\* ----------------------------------- RenogyReader: the abstract attempt

\* await self._read_implementation(): whatever a subclass does
BaseAttempt ==
  /\ pc = "await"
  /\ apc = "impl"
  /\ \/ \E val \in BaseValues : AttemptDone(Ok(val))
     \/ \E e \in BaseErrors : AttemptDone(Fail(e))
  /\ UNCHANGED << callVars, appVars, impl, max_retries, loopVars, adapter, bleVars, modbusVars, att >>

\* ------------------------------------------- the Bluetooth attempt routine

\* field names a SolarReading declares beside type, name, read_time, read_duration_ms
SolarFieldNames ==
  {"model", "device_id", "battery_percentage", "battery_voltage", "battery_current",
   "battery_temperature", "battery_type", "controller_temperature", "charging_status",
   "load_status", "load_voltage", "load_current", "load_power", "pv_voltage",
   "pv_current", "pv_power", "battery_min_voltage_today", "battery_max_voltage_today",
   "max_charging_current_today", "max_discharging_current_today",
   "max_charging_power_today", "max_discharging_power_today",
   "charging_amp_hours_today", "discharging_amp_hours_today",
   "power_generation_today", "power_consumption_today", "power_generation_total"}

\* k.startswith("_")
StartsWithUnderscore(k) == Len(k) >= 1 /\ SubSeq(k, 1, 1) = "_"

\* read_time: the default factory's datetime.now(timezone.utc); time is not modelled
Now == StrVal("now")

\* a normalizer that gives 0 to the fields the raw data lacks
FromRawDataZeroDefaults(sensor_type, name, raw, read_duration_ms) ==
  LET filtered == {k \in DOMAIN raw : ~StartsWithUnderscore(k) /\ k # "function"}
  IN  [type             |-> sensor_type,
       name             |-> name,
       read_time        |-> Now,
       read_duration_ms |-> read_duration_ms,
       fields           |-> [k \in SolarFieldNames |->
                               IF k \in filtered THEN raw[k] ELSE IntVal(0)]]

\* a normalizer that keeps every key of the raw data as an attribute
FromRawDataKeepsAll(sensor_type, name, raw, read_duration_ms) ==
  [type             |-> sensor_type,
   name             |-> name,
   read_time        |-> Now,
   read_duration_ms |-> read_duration_ms,
   fields           |-> [k \in SolarFieldNames \cup DOMAIN raw |->
                           IF k \in DOMAIN raw THEN raw[k] ELSE NoneVal]]

\* SolarReading.from_raw_data: the raw dict without its internal keys, as a reading.
\* Every declared field has a value, None by default; a key that is no declared
\* field is ignored by the pydantic constructor.
FromRawData(sensor_type, name, raw, read_duration_ms) ==
  LET filtered == {k \in DOMAIN raw : ~StartsWithUnderscore(k) /\ k # "function"}
  IN  [type             |-> sensor_type,
       name             |-> name,
       read_time        |-> Now,
       read_duration_ms |-> read_duration_ms,
       fields           |-> [k \in SolarFieldNames |->
                               IF k \in filtered THEN raw[k] ELSE NoneVal]]

\* SolarReading.to_dict: model_dump(exclude_none=True), read_time as an ISO string
ToDict(r) ==
  LET base == {"type", "name", "read_time"}
                \cup (IF r.read_duration_ms # NoneVal THEN {"read_duration_ms"} ELSE {})
      set  == {k \in DOMAIN r.fields : r.fields[k] # NoneVal}
  IN  [k \in base \cup set |->
         CASE k = "type"             -> StrVal(r.type)
           [] k = "name"             -> StrVal(r.name)
           [] k = "read_time"        -> r.read_time
           [] k = "read_duration_ms" -> r.read_duration_ms
           [] OTHER                  -> r.fields[k]]

\* BluetoothReader._attempt_read: the result dictionary built on success
BluetoothData(parsed) ==
  Put(Put(Put(Put(Put(parsed, "__device", StrVal("BT-2")),
                  "__client", StrVal("BluetoothReader")),
              "__scan_ms", Elapsed),
          "__connect_ms", Elapsed),
      "__total_ms", Elapsed)

\* an attempt that returns a list with no reading in it
SensorReadingsEmptyList(parsed) == << >>

\* RenogySensor._attempt_read: the list of one reading built on success
SensorReadings(parsed) ==
  LET raw == Put(Put(parsed, "__device", StrVal("BT-2")),
                 "__client", StrVal("RenogyBleClient"))
  IN  << FromRawData("solar", "BT-2", raw, Elapsed) >>

\* an attempt without the test of parsed_data
BleOutcomeNoEmptyCheck(i, r) ==
  IF ~r.success
    THEN Fail(Err("ReadFailed", IF r.error # "None" THEN r.error ELSE "Unknown error"))
    ELSE Ok(IF i = "sensor" THEN SensorReadings(r.parsed) ELSE BluetoothData(r.parsed))

\* what the attempt makes of the BLE client's read result
BleOutcome(i, r) ==
  IF ~r.success
    THEN Fail(Err("ReadFailed", IF r.error # "None" THEN r.error ELSE "Unknown error"))
    ELSE IF DOMAIN r.parsed = {}
      THEN Fail(Err("EmptyData", ""))
      ELSE Ok(IF i = "sensor" THEN SensorReadings(r.parsed) ELSE BluetoothData(r.parsed))

\* what the scan may give: a device, None, or an exception of the scanner
ScanOutcomes == {"found", "None", "raise"}

\* an attempt without the test of device against None
AfterScanNoNoneCheck(o) ==
  CASE o \in {"found", "None"} -> [apc |-> "client", ret |-> NoRet]
    [] o = "raise"              -> [apc |-> "done",   ret |-> Fail(Err("Unexpected", "scan"))]

\* if device is None: raise RuntimeError("Could not find Renogy device ..."), else go on
AfterScan(o) ==
  CASE o = "found" -> [apc |-> "client", ret |-> NoRet]
    [] o = "None"  -> [apc |-> "done",   ret |-> Fail(Err("DeviceNotFound", ""))]
    [] o = "raise" -> [apc |-> "done",   ret |-> Fail(Err("Unexpected", "scan"))]

\* device = await scanner_class.find_device_by_address(mac, timeout=scan_timeout)
BleScan ==
  /\ pc = "await"
  /\ apc = "scan"
  /\ att' = [att EXCEPT !.scans = @ + 1]
  /\ \E o \in ScanOutcomes :
       /\ device' = IF o = "raise" THEN device ELSE o
       /\ apc' = AfterScan(o).apc
       /\ ret' = AfterScan(o).ret
  /\ cycle' = [cycle EXCEPT !.scans = @ + 1,
                            !.failures = IF apc' = "done" THEN @ + 1 ELSE @]
  /\ UNCHANGED << callVars, appVars, impl, max_retries, loopVars, adapter, bleResult, modbusVars >>

\* renogy_device = device_class(...); client = client_class(max_attempts=5);
\* result = await client.read_device(renogy_device)
BleClientRead ==
  /\ pc = "await"
  /\ apc = "client"
  /\ att' = [att EXCEPT !.wraps = @ + 1, !.reads = @ + 1]
  /\ \/ /\ \E r \in BleResults : bleResult' = r
        /\ apc' = "check"
        /\ ret' = ret
        /\ cycle' = [cycle EXCEPT !.reads = @ + 1]
     \/ /\ bleResult' = bleResult
        /\ apc' = "done"
        /\ ret' = Fail(Err("Unexpected", "ble"))
        /\ cycle' = [cycle EXCEPT !.reads = @ + 1, !.failures = @ + 1]
  /\ UNCHANGED << callVars, appVars, impl, max_retries, loopVars, adapter, device, modbusVars >>

\* if not result.success: raise ...; if not result.parsed_data: raise ...; return data
BleCheck ==
  /\ pc = "await"
  /\ apc = "check"
  /\ AttemptDone(BleOutcome(impl, bleResult))
  /\ UNCHANGED << callVars, appVars, impl, max_retries, loopVars, adapter, bleVars, modbusVars, att >>

\* ---------------------------------------------- the Modbus attempt routine

\* the metadata the attempt adds to its data
ModbusMetadata(d) ==
  Put(Put(Put(Put(d, "__device", StrVal("Renogy")),
              "__client", StrVal("ModbusReader")),
          "__connect_ms", Elapsed),
      "__total_ms", Elapsed)

\* a test that takes one data field for metadata
OnlyMetadataOffByOne(d) == Cardinality(DOMAIN d) <= 5

\* if len(data) <= 4: only metadata, no actual data
OnlyMetadata(d) == Cardinality(DOMAIN d) <= 4

\* a close in an except clause as well as in the finally block
FinallyCloseTwiceOnError(c, e) ==
  [c EXCEPT !.open = FALSE, !.closes = IF e = NoError THEN @ + 1 ELSE @ + 2]

\* a close at the end of the try block instead of a finally block
CloseOnSuccessOnly(c, e) ==
  IF e = NoError THEN [c EXCEPT !.open = FALSE, !.closes = @ + 1] ELSE c

\* finally: client.close()
FinallyClose(c, e) == [c EXCEPT !.open = FALSE, !.closes = @ + 1]

\* what client.connect() may do: return True, return False, raise
ConnectOutcomes == {"True", "False", "raise"}

\* where the attempt goes once the connection is open
AfterConnected == IF Len(Registers) >= 1 THEN "regs" ELSE "temp"

\* an attempt that does not test what connect() returned
AfterConnectIgnoresFalse(o) ==
  CASE o \in {"True", "False"} -> [apc |-> AfterConnected, exc |-> NoError]
    [] o = "raise"             -> [apc |-> "finally", exc |-> Err("Unexpected", "connect")]

\* if not client.connect(): raise RuntimeError("Failed to connect to Modbus device ...")
AfterConnect(o) ==
  CASE o = "True"  -> [apc |-> AfterConnected, exc |-> NoError]
    [] o = "False" -> [apc |-> "finally", exc |-> Err("ConnectFailed", "")]
    [] o = "raise" -> [apc |-> "finally", exc |-> Err("Unexpected", "connect")]

\* a register loop that stores 0 for a register it could not read
AfterRegisterDefaultsZero(d, reg, o) ==
  IF o.res = "ok" THEN Put(d, reg.field, ScaleValue(o.raw, reg.scale))
                  ELSE Put(d, reg.field, IntVal(0))

\* a temperature step that stores the controller temperature only
AfterTemperatureControllerOnly(d, o) ==
  IF o.res = "ok"
    THEN Put(d, "controller_temperature", IntVal(_parse_temperature_register(o.raw)[1]))
    ELSE d

\* read_errors += 1 when the read gave an error result or raised
CountReadError(n, o) == IF o.res = "ok" THEN n ELSE n + 1

\* a status step that counts its failure as a read error
StatusErrorsCounted(n, o) == IF o.res = "ok" THEN n ELSE n + 1

\* the status step has no else branch, and its except clause is: pass
StatusErrors(n, o) == n

\* what the register loop does with one read of regs[i]
AfterRegister(d, reg, o) ==
  IF o.res = "ok" THEN Put(d, reg.field, ScaleValue(o.raw, reg.scale)) ELSE d

\* what the attempt does with the read of the temperature register
AfterTemperature(d, o) ==
  IF o.res = "ok"
    THEN LET temps == _parse_temperature_register(o.raw)
         IN  Put(Put(d, "controller_temperature", IntVal(temps[1])),
                 "battery_temperature", IntVal(temps[2]))
    ELSE d

\* what the attempt does with the read of the status register
AfterStatus(d, o) ==
  IF o.res = "ok" THEN Put(d, "charging_status", StrVal(StatusName(o.raw))) ELSE d

\* client = ModbusSerialClient(port=..., baudrate=..., timeout=3), before the try
ModbusNew ==
  /\ InFlight
  /\ apc = "new"
  /\ \/ /\ client' = [NoClient EXCEPT !.created = TRUE]
        /\ apc' = "connect"
        /\ UNCHANGED << ret, cycle >>
     \/ /\ client' = client
        /\ AttemptDone(Fail(Err("Unexpected", "serial")))
  /\ UNCHANGED << callVars, appVars, impl, max_retries, loopVars, adapter, bleVars,
                  idx, data, read_errors, exc, openPorts, att >>

\* client.connect() inside the try block, and the test of its answer
ModbusConnect ==
  /\ InFlight
  /\ apc = "connect"
  /\ \E o \in ConnectOutcomes :
       /\ client' = [client EXCEPT !.connects = @ + 1, !.open = (o = "True")]
       /\ openPorts' = IF o = "True" THEN openPorts + 1 ELSE openPorts
       /\ apc' = AfterConnect(o).apc
       /\ exc' = AfterConnect(o).exc
       /\ att' = [att EXCEPT !.connect = o]
  /\ idx' = IF apc' = "finally" THEN idx ELSE 1
  /\ UNCHANGED << callVars, appVars, impl, max_retries, loopVars, adapter, bleVars,
                  ret, data, read_errors, cycle >>

\* for reg_addr, field_name, scale_factor, _ in REGISTER_MAP: one pass of the loop
ModbusReadRegister ==
  /\ InFlight
  /\ apc = "regs"
  /\ idx <= Len(Registers)
  /\ \E o \in RegOutcomes(RegRaw) :
       /\ data' = AfterRegister(data, Registers[idx], o)
       /\ read_errors' = CountReadError(read_errors, o)
       /\ att' = [att EXCEPT !.regReads = @ + 1, !.mapReads = @ + 1,
                             !.okRegs = IF o.res = "ok"
                                          THEN @ \cup {Registers[idx].field} ELSE @]
  /\ idx' = idx + 1
  /\ apc' = IF idx + 1 > Len(Registers) THEN "temp" ELSE "regs"
  /\ UNCHANGED << callVars, appVars, impl, max_retries, loopVars, adapter, bleVars,
                  ret, client, exc, openPorts, cycle >>

\* the read of TEMPERATURE_REGISTER (0x0103)
ModbusReadTemperature ==
  /\ InFlight
  /\ apc = "temp"
  /\ \E o \in RegOutcomes(TempRaw) :
       /\ data' = AfterTemperature(data, o)
       /\ read_errors' = CountReadError(read_errors, o)
       /\ att' = [att EXCEPT !.regReads = @ + 1, !.temp = o.res]
  /\ apc' = "status"
  /\ UNCHANGED << callVars, appVars, impl, max_retries, loopVars, adapter, bleVars,
                  ret, client, idx, exc, openPorts, cycle >>

\* the read of STATUS_REGISTER (0x0120)
ModbusReadStatus ==
  /\ InFlight
  /\ apc = "status"
  /\ \E o \in RegOutcomes(StatusRaw) :
       /\ data' = AfterStatus(data, o)
       /\ read_errors' = StatusErrors(read_errors, o)
       /\ att' = [att EXCEPT !.regReads = @ + 1, !.status = o.res]
  /\ apc' = "finish"
  /\ UNCHANGED << callVars, appVars, impl, max_retries, loopVars, adapter, bleVars,
                  ret, client, idx, exc, openPorts, cycle >>

\* add the metadata; raise when no data field was read, else return data
ModbusFinish ==
  /\ InFlight
  /\ apc = "finish"
  /\ data' = ModbusMetadata(data)
  /\ exc' = IF OnlyMetadata(data') THEN Err("NoData", "") ELSE exc
  /\ apc' = "finally"
  /\ UNCHANGED << callVars, appVars, impl, max_retries, loopVars, adapter, bleVars,
                  ret, client, idx, read_errors, openPorts, cycle, att >>

\* finally: client.close(); then the return or the exception goes on
ModbusFinally ==
  /\ InFlight
  /\ apc = "finally"
  /\ client' = FinallyClose(client, exc)
  /\ openPorts' = IF client.open /\ ~client'.open THEN openPorts - 1 ELSE openPorts
  /\ AttemptDone(IF exc = NoError THEN Ok(data) ELSE Fail(exc))
  /\ UNCHANGED << callVars, appVars, impl, max_retries, loopVars, adapter, bleVars,
                  idx, data, read_errors, exc, att >>

\* --------------------------------------------------------------- cancellation

\* a read() whose except clause catches the cancellation like a failed attempt
AfterCancelCaught(a, n) == IF ShouldRetry(a, n) THEN "sleep" ELSE "loop"

\* CancelledError is raised at the await of run_in_executor; it is no Exception,
\* so the except clause of read() lets it through and read() ends
AfterCancel(a, n) == "cancelled"

\* the task that awaits ModbusReader.read() is cancelled while the attempt
\* runs in its executor thread; the thread is not interrupted
Cancel ==
  /\ impl = "modbus"
  /\ pc = "await"
  /\ apc # "done"
  /\ pc' = AfterCancel(attempt, max_retries)
  /\ result' = IF pc' = "cancelled" THEN Raised(Err("Cancelled", "")) ELSE result
  /\ last_error' = IF pc' = "cancelled" THEN last_error ELSE Err("Cancelled", "")
  /\ cycle' = [cycle EXCEPT !.cancel = apc]
  /\ UNCHANGED << callVars, appVars, impl, max_retries, attempt, apc, ret, adapter,
                  bleVars, modbusVars, att >>

\* ------------------------------------------------------------ specification

Next ==
  \/ StartRead
  \/ ProbeAdapter
  \/ LoopEnter
  \/ LoopExhausted
  \/ ReadReturn
  \/ ReadExcept
  \/ Sleep
  \/ BaseAttempt
  \/ BleScan
  \/ BleClientRead
  \/ BleCheck
  \/ ModbusNew
  \/ ModbusConnect
  \/ ModbusReadRegister
  \/ ModbusReadTemperature
  \/ ModbusReadStatus
  \/ ModbusFinish
  \/ ModbusFinally

Spec == Init /\ [][Next]_vars

\* a Modbus reader whose read() may be cancelled during an attempt
InitCancel == Init /\ impl = "modbus"

NextCancel ==
  \/ StartRead
  \/ LoopEnter
  \/ LoopExhausted
  \/ ReadReturn
  \/ ReadExcept
  \/ Sleep
  \/ ModbusNew
  \/ ModbusConnect
  \/ ModbusReadRegister
  \/ ModbusReadTemperature
  \/ ModbusReadStatus
  \/ ModbusFinish
  \/ ModbusFinally
  \/ Cancel

SpecCancel == InitCancel /\ [][NextCancel]_vars

\* ------------------------------------------- direct calls of the decoders

\* no reader is at work: the variables of the read cycle stay as constructed
ReaderAtRest ==
  /\ impl = "modbus"
  /\ max_retries = 3
  /\ pc = "idle"
  /\ attempt = 0
  /\ last_error = NoError
  /\ result = Pending
  /\ apc = "none"
  /\ ret = NoRet
  /\ adapter = "unknown"
  /\ device = "unset"
  /\ bleResult = NoBleResult
  /\ client = NoClient
  /\ idx = 0
  /\ data = EmptyMap
  /\ read_errors = 0
  /\ exc = NoError
  /\ openPorts = 0
  /\ cycle = ZeroCycle
  /\ att = ZeroAtt

readerVars == << impl, max_retries, pc, attempt, last_error, result, apc, ret, adapter,
                 device, bleResult, client, idx, data, read_errors, exc, openPorts,
                 cycle, att >>

\* the argument is any value a 16-bit holding register can hold
InitDecode ==
  /\ ReaderAtRest
  /\ fn = "none"
  /\ arg \in 0 .. 65535
  /\ reading = NoValue
  /\ out = NoValue
  /\ AppAtRest

\* _to_signed_8bit(value), for a value that is one byte
CallToSigned8bit ==
  /\ fn = "none"
  /\ arg \in 0 .. 255
  /\ fn' = "_to_signed_8bit"
  /\ out' = _to_signed_8bit(arg)
  /\ UNCHANGED << readerVars, appVars, arg, reading >>

\* _parse_temperature_register(raw_value)
CallParseTemperature ==
  /\ fn = "none"
  /\ fn' = "_parse_temperature_register"
  /\ out' = _parse_temperature_register(arg)
  /\ UNCHANGED << readerVars, appVars, arg, reading >>

\* the status step of the attempt, on an empty data dict and a good read of arg
CallStatusStep ==
  /\ fn = "none"
  /\ fn' = "status"
  /\ out' = AfterStatus(EmptyMap, [res |-> "ok", raw |-> arg])
  /\ UNCHANGED << readerVars, appVars, arg, reading >>

NextDecode ==
  \/ CallToSigned8bit
  \/ CallParseTemperature
  \/ CallStatusStep

SpecDecode == InitDecode /\ [][NextDecode]_vars

\* --------------------------------- direct calls of the register loop's body

\* one pass of the register loop for register i of the whole map, on an empty
\* data dict and a good read of arg
CallRegisterStep ==
  /\ fn = "none"
  /\ fn' = "register"
  /\ \E i \in 1 .. Len(REGISTER_MAP) :
       out' = [reg |-> i,
               data |-> AfterRegister(EmptyMap, REGISTER_MAP[i], [res |-> "ok", raw |-> arg])]
  /\ UNCHANGED << readerVars, appVars, arg, reading >>

NextScale == CallRegisterStep

SpecScale == InitDecode /\ [][NextScale]_vars

\* ------------------------------------------- direct calls of the normalizer

\* a key the raw data does not have
Absent == [t |-> "absent", v |-> 0]

\* what the raw data of a transport may hold under each key: the keys of both
\* transports' metadata, the library's function key, a key that is no declared
\* field, and device fields
RawChoices ==
  [battery_percentage : {Absent, IntVal(0), IntVal(85)},
   battery_voltage    : {Absent, FloatVal(1320)},
   charging_status    : {Absent, StrVal("mppt")},
   battery_type       : {Absent, NoneVal, StrVal("lithium")},
   cell_count         : {Absent, IntVal(4)},
   function           : {Absent, StrVal("READ")},
   __device           : {Absent, StrVal("Renogy"), StrVal("BT-2")},
   __client           : {Absent, StrVal("ModbusReader"), StrVal("BluetoothReader")},
   __scan_ms          : {Absent, Elapsed},
   __connect_ms       : {Absent, Elapsed},
   __total_ms         : {Absent, Elapsed}]

\* the dict of a choice: the keys that are present
RawDict(c) == [k \in {x \in DOMAIN c : c[x] # Absent} |-> c[k]]

\* the arguments of from_raw_data: the raw data and read_duration_ms
InitNormalize ==
  /\ ReaderAtRest
  /\ fn = "none"
  /\ \E c \in RawChoices, ms \in {NoneVal, Elapsed} :
       arg = [data |-> RawDict(c), read_duration_ms |-> ms]
  /\ reading = NoValue
  /\ out = NoValue
  /\ AppAtRest

\* reading = SolarReading.from_raw_data("solar", name, data, read_duration_ms)
CallFromRawData ==
  /\ fn = "none"
  /\ fn' = "from_raw_data"
  /\ reading' = FromRawData("solar", "BT-2", arg.data, arg.read_duration_ms)
  /\ UNCHANGED << readerVars, appVars, arg, out >>

\* reading.to_dict()
CallToDict ==
  /\ fn = "from_raw_data"
  /\ fn' = "to_dict"
  /\ out' = ToDict(reading)
  /\ UNCHANGED << readerVars, appVars, arg, reading >>

NextNormalize ==
  \/ CallFromRawData
  \/ CallToDict

SpecNormalize == InitNormalize /\ [][NextNormalize]_vars

\* ------------------------------------------------------------ the event bus

\* a list of handlers of one event type has at most MaxSubs entries
MaxSubs == 2

\* Event type for sensor readings
SENSOR_READING_EVENT == "sensor.reading"

EventTypes == {SENSOR_READING_EVENT, "test.event"}

\* LoggingConsumer._handle_reading, and a handler of a caller
Handlers == {"_handle_reading", "handler"}

\* a handler returns, or raises an Exception
HandlerOutcomes == {"return", "raise"}

\* the data a caller publishes
EventData == {StrVal("A"), StrVal("B")}

\* d.get(k, default)
Get(d, k, default) == IF k \in DOMAIN d THEN d[k] ELSE default

\* how often h is in the list
Count(h, list) == Cardinality({k \in 1 .. Len(list) : list[k] = h})

\* if event_type not in self._subscribers: ... = []; self._subscribers[event_type].append(handler)
SubscribeResult(subs, t, h) == Put(subs, t, Append(Get(subs, t, << >>), h))

\* a remove that removes nothing
RemoveNothing(list, h) == list

\* list.remove(h) with the ValueError passed over: the first h is taken out, if any
RemoveFirst(list, h) ==
  IF \E k \in 1 .. Len(list) : list[k] = h
    THEN LET i == CHOOSE k \in 1 .. Len(list) :
                    list[k] = h /\ \A j \in 1 .. k - 1 : list[j] # h
         IN  SubSeq(list, 1, i - 1) \o SubSeq(list, i + 1, Len(list))
    ELSE list

\* if event_type in self._subscribers: remove the handler from its list
UnsubscribeResult(subs, t, h) ==
  IF t \in DOMAIN subs THEN [subs EXCEPT ![t] = RemoveFirst(@, h)] ELSE subs

\* handlers = self._subscribers.get(event_type, []) at the start of publish
BeginPublish(subs, t, d) ==
  [pc |-> "delivering", type |-> t, data |-> d, live |-> t \in DOMAIN subs, i |-> 1,
   atBegin |-> Get(subs, t, << >>), delivered |-> << >>, result |-> "none",
   afterEdit |-> TRUE]

\* a loop over the handlers of every event type
IteratedAllTypes(subs, b) ==
  Get(subs, SENSOR_READING_EVENT, << >>) \o Get(subs, "test.event", << >>)

\* the list the loop of publish runs over: the list of the event type, itself
Iterated(subs, b) == IF b.live THEN subs[b.type] ELSE << >>

\* a publish that lets the exception of a handler through
AfterHandlerPropagates(o) == IF o = "raise" THEN "raise" ELSE "next"

\* try: handler(data) except Exception as e: log the error; the loop goes on
AfterHandler(o) == "next"

\* EventBus.subscribe(event_type, handler), for lists of fewer than n handlers
SubscribeUpTo(n) ==
  /\ bus.pc = "idle"
  /\ rec.pc = "idle"
  /\ \E t \in EventTypes, h \in Handlers :
       /\ Len(Get(_subscribers, t, << >>)) < n
       /\ _subscribers' = SubscribeResult(_subscribers, t, h)
       /\ lastEdit' = [op |-> "subscribe", type |-> t, handler |-> h, raised |-> FALSE,
                       before |-> _subscribers]
  /\ bus' = [bus EXCEPT !.afterEdit = FALSE]
  /\ UNCHANGED << readerVars, callVars, held, rec, job, jobs, lastAdd >>

\* EventBus.subscribe(event_type, handler)
Subscribe == SubscribeUpTo(MaxSubs)

\* EventBus.subscribe(event_type, handler), with room for one more handler
SubscribeLonger == SubscribeUpTo(MaxSubs + 1)

\* EventBus.unsubscribe(event_type, handler)
Unsubscribe ==
  /\ bus.pc = "idle"
  /\ rec.pc = "idle"
  /\ \E t \in EventTypes, h \in Handlers :
       /\ _subscribers' = UnsubscribeResult(_subscribers, t, h)
       /\ lastEdit' = [op |-> "unsubscribe", type |-> t, handler |-> h, raised |-> FALSE,
                       before |-> _subscribers]
  /\ bus' = [bus EXCEPT !.afterEdit = FALSE]
  /\ UNCHANGED << readerVars, callVars, held, rec, job, jobs, lastAdd >>

\* EventBus.publish(event_type, data), called by a caller of the bus
Publish ==
  /\ bus.pc = "idle"
  /\ rec.pc = "idle"
  /\ \E t \in EventTypes, d \in EventData :
       bus' = [BeginPublish(_subscribers, t, d) EXCEPT !.afterEdit = TRUE]
  /\ UNCHANGED << readerVars, callVars, _subscribers, lastEdit, held, rec, job, jobs,
                  lastAdd >>

\* one pass of the loop of publish: the next handler is called
Deliver ==
  /\ bus.pc = "delivering"
  /\ bus.i <= Len(Iterated(_subscribers, bus))
  /\ \E o \in HandlerOutcomes :
       LET call == [handler |-> Iterated(_subscribers, bus)[bus.i], data |-> bus.data,
                    outcome |-> o]
       IN  bus' = IF AfterHandler(o) = "next"
                    THEN [bus EXCEPT !.delivered = Append(@, call), !.i = @ + 1]
                    ELSE [bus EXCEPT !.delivered = Append(@, call), !.pc = "idle",
                                     !.result = "raised"]
  /\ UNCHANGED << readerVars, callVars, _subscribers, lastEdit, held, rec, job, jobs,
                  lastAdd >>

\* the loop of publish is over: publish returns
PublishReturn ==
  /\ bus.pc = "delivering"
  /\ bus.i > Len(Iterated(_subscribers, bus))
  /\ bus' = [bus EXCEPT !.pc = "idle", !.result = "returned"]
  /\ UNCHANGED << readerVars, callVars, _subscribers, lastEdit, held, rec, job, jobs,
                  lastAdd >>

InitBus ==
  /\ ReaderAtRest
  /\ CallsAtRest
  /\ AppAtRest

NextBus ==
  \/ Subscribe
  \/ Unsubscribe
  \/ Publish
  \/ Deliver
  \/ PublishReturn

SpecBus == InitBus /\ [][NextBus]_vars

NextPair ==
  \/ SubscribeLonger
  \/ Unsubscribe

\* the bus under subscribe and unsubscribe calls alone
SpecPair == InitBus /\ [][NextPair]_vars

\* what a handler may do with the bus while it handles an event
HandlerEdits == [op : {"subscribe", "unsubscribe"}, type : EventTypes, handler : Handlers]

\* one pass of the loop of publish whose handler calls subscribe or unsubscribe
\* on the bus, and returns
DeliverEditing ==
  /\ bus.pc = "delivering"
  /\ bus.i <= Len(Iterated(_subscribers, bus))
  /\ \E e \in HandlerEdits :
       /\ e.op = "subscribe" => Len(Get(_subscribers, e.type, << >>)) < MaxSubs
       /\ _subscribers' = IF e.op = "subscribe"
                            THEN SubscribeResult(_subscribers, e.type, e.handler)
                            ELSE UnsubscribeResult(_subscribers, e.type, e.handler)
       /\ lastEdit' = [op |-> e.op, type |-> e.type, handler |-> e.handler, raised |-> FALSE,
                       before |-> _subscribers]
  /\ bus' = [bus EXCEPT !.delivered = Append(@, [handler |-> Iterated(_subscribers, bus)[bus.i],
                                                  data |-> bus.data, outcome |-> "return"]),
                        !.i = @ + 1]
  /\ UNCHANGED << readerVars, callVars, held, rec, job, jobs, lastAdd >>

NextReentrant ==
  \/ Subscribe
  \/ Unsubscribe
  \/ Publish
  \/ Deliver
  \/ DeliverEditing
  \/ PublishReturn

SpecReentrant == InitBus /\ [][NextReentrant]_vars

\* ------------------------------------------- readings and the metrics service

\* a list handed to record has at most MaxReadings readings
MaxReadings == 2

\* class SensorReading(BaseModel): no model_config, so the model is not frozen
ModelFrozen == FALSE

\* the fields of a SensorReading a caller can assign to
ReadingFields == {"type", "name"}

\* a constructed reading: type, name, read_time, read_duration_ms
Reading(type, name) ==
  [t |-> "reading",
   v |-> [type |-> type, name |-> name, read_time |-> Now, read_duration_ms |-> NoneVal]]

\* the readings the sensors hand over
ReadingValues == {Reading("solar", "BT-TH-1"), Reading("temperature", "probe")}

RECURSIVE ListsUpTo(_, _)
\* the lists of at most n members of S
ListsUpTo(S, n) ==
  IF n = 0 THEN {<< >>}
  ELSE LET shorter == ListsUpTo(S, n - 1)
       IN  shorter \cup {Append(l, x) : l \in {m \in shorter : Len(m) = n - 1}, x \in S}

\* a loop that leaves out every second reading
RecordStepSkips(i) == i + 2

\* for reading in readings: the next reading of the list
RecordStep(i) == i + 1

\* reading.<field> = x: BaseModel.__setattr__ of a model that is not frozen
SetAttr ==
  /\ rec.pc \in {"idle", "done"}
  /\ bus.pc = "idle"
  /\ ~ModelFrozen
  /\ \E k \in 1 .. Len(held), f \in ReadingFields, x \in {"solar", "changed"} :
       /\ held[k].v[f] # x
       /\ held' = [held EXCEPT ![k].v[f] = x]
  /\ UNCHANGED << readerVars, callVars, _subscribers, bus, lastEdit, rec, job, jobs, lastAdd >>

\* MetricsService.record(readings), called with the list held
RecordBegin ==
  /\ rec.pc \in {"idle", "done"}
  /\ bus.pc = "idle"
  /\ rec' = [pc |-> "loop", readings |-> held, i |-> 1, published |-> << >>]
  /\ UNCHANGED << readerVars, callVars, _subscribers, bus, lastEdit, held, job, jobs, lastAdd >>

\* one pass of the loop of record: self._event_bus.publish(SENSOR_READING_EVENT, reading)
RecordPublish ==
  /\ rec.pc = "loop"
  /\ bus.pc = "idle"
  /\ rec.i <= Len(held)
  /\ bus' = BeginPublish(_subscribers, SENSOR_READING_EVENT, held[rec.i])
  /\ rec' = [rec EXCEPT !.i = RecordStep(@),
                        !.published = Append(@, [type |-> SENSOR_READING_EVENT,
                                                 data |-> held[rec.i]])]
  /\ UNCHANGED << readerVars, callVars, _subscribers, lastEdit, held, job, jobs, lastAdd >>

\* the loop of record is over: record logs the count and returns
RecordReturn ==
  /\ rec.pc = "loop"
  /\ bus.pc = "idle"
  /\ rec.i > Len(held)
  /\ rec' = [rec EXCEPT !.pc = "done"]
  /\ UNCHANGED << readerVars, callVars, _subscribers, bus, lastEdit, held, job, jobs, lastAdd >>

\* the application after LoggingConsumer() has subscribed, with readings at hand
InitMetrics ==
  /\ ReaderAtRest
  /\ CallsAtRest
  /\ _subscribers = SubscribeResult(EmptyDict, SENSOR_READING_EVENT, "_handle_reading")
  /\ bus = NoPublish
  /\ lastEdit = NoEdit
  /\ held \in ListsUpTo(ReadingValues, MaxReadings)
  /\ rec = NoRecord
  /\ job = NoJob
  /\ jobs = EmptyDict
  /\ lastAdd = NoAdd

NextMetrics ==
  \/ SetAttr
  \/ RecordBegin
  \/ RecordPublish
  \/ RecordReturn
  \/ Deliver
  \/ PublishReturn

SpecMetrics == InitMetrics /\ [][NextMetrics]_vars

\* ------------------------------------------------------ the Renogy job of run

\* settings.renogy.sensors has MaxSensors entries
MaxSensors == 2

\* the scheduler fires the job at most MaxTicks times
MaxTicks == 2

\* sensor.name of the k-th configured sensor
SensorName(k) == "renogy_" \o ToString(k)

\* what sensor.read() of the k-th sensor returns: a list of one reading
JobReadings(k) == << Reading("solar", SensorName(k)) >>

\* add_job sets no max_instances: the scheduler runs one instance of a job at a time
MaxInstances == 1

\* a scheduler that starts the job whenever its trigger fires
CanTickAlways(j) == TRUE

\* the trigger fires: the job function is called when fewer than MaxInstances
\* executions of it are running
CanTick(j) == j.instances < MaxInstances

\* for sensor in renogy_sensors: sensor.read() of the k-th sensor is the next call
CanStartRead(j, k) == j.pc = "next" /\ j.i = k

\* a job without the try/except around the read of a sensor
AfterSensorFailurePropagates(j) ==
  [j EXCEPT !.read = Append(@, "failed"), !.pc = "done", !.raised = TRUE,
            !.instances = @ - 1]

\* except Exception as e: logger.error(...); the loop goes to the next sensor
AfterSensorFailure(j) ==
  [j EXCEPT !.read = Append(@, "failed"), !.pc = "next", !.i = @ + 1, !.attempt = 0]

\* readings = sensor.read(); metrics_service.record(readings): one event a reading
AfterSensorRead(j) ==
  [j EXCEPT !.read = Append(@, "ok"), !.published = @ \o JobReadings(j.i),
            !.pc = "next", !.i = @ + 1, !.attempt = 0]

\* the scheduler calls read_renogy
JobTick ==
  /\ CanTick(job)
  /\ job.tick < MaxTicks
  /\ job' = [job EXCEPT !.pc = "next", !.tick = @ + 1, !.i = 1, !.attempt = 0,
                        !.read = << >>, !.published = << >>, !.instances = @ + 1,
                        !.earlier = @ \/ (\E k \in 1 .. Len(job.read) : job.read[k] = "failed")]
  /\ UNCHANGED << readerVars, callVars, _subscribers, bus, lastEdit, held, rec, jobs, lastAdd >>

\* sensor.read() of the next sensor: no adapter and no attempts raise at once,
\* else the first attempt starts
JobReadBegin ==
  /\ \E k \in 1 .. MaxSensors : CanStartRead(job, k)
  /\ \E powered \in BOOLEAN :
       job' = IF powered /\ LoopHasNext(0, job.retries)
                THEN [job EXCEPT !.pc = "attempting", !.attempt = 1]
                ELSE AfterSensorFailure(job)
  /\ UNCHANGED << readerVars, callVars, _subscribers, bus, lastEdit, held, rec, jobs, lastAdd >>

\* the attempt succeeds: read returns its list, record publishes it
JobAttemptOk ==
  /\ job.pc = "attempting"
  /\ job' = AfterSensorRead(job)
  /\ UNCHANGED << readerVars, callVars, _subscribers, bus, lastEdit, held, rec, jobs, lastAdd >>

\* the attempt fails: the read sleeps before the next attempt, or raises after the last
JobAttemptFail ==
  /\ job.pc = "attempting"
  /\ job' = IF ShouldRetry(job.attempt, job.retries)
              THEN [job EXCEPT !.pc = "sleeping"]
              ELSE AfterSensorFailure(job)
  /\ UNCHANGED << readerVars, callVars, _subscribers, bus, lastEdit, held, rec, jobs, lastAdd >>

\* the retry delay is over: the next attempt starts
JobWake ==
  /\ job.pc = "sleeping"
  /\ job' = [job EXCEPT !.pc = "attempting", !.attempt = @ + 1]
  /\ UNCHANGED << readerVars, callVars, _subscribers, bus, lastEdit, held, rec, jobs, lastAdd >>

\* the loop over the sensors is over: read_renogy returns
JobReturn ==
  /\ job.pc = "next"
  /\ job.i > MaxSensors
  /\ job' = [job EXCEPT !.pc = "done", !.instances = @ - 1]
  /\ UNCHANGED << readerVars, callVars, _subscribers, bus, lastEdit, held, rec, jobs, lastAdd >>

\* the trigger fires while the job is running: this run of the job is skipped
JobSkip ==
  /\ ~CanTick(job)
  /\ job.tick < MaxTicks
  /\ job' = [job EXCEPT !.tick = @ + 1, !.skipped = @ + 1]
  /\ UNCHANGED << readerVars, callVars, _subscribers, bus, lastEdit, held, rec, jobs, lastAdd >>

\* run has made the sensors, each with the max_retries of the configuration
InitRun ==
  /\ ReaderAtRest
  /\ CallsAtRest
  /\ _subscribers = SubscribeResult(EmptyDict, SENSOR_READING_EVENT, "_handle_reading")
  /\ bus = NoPublish
  /\ lastEdit = NoEdit
  /\ held = << >>
  /\ rec = NoRecord
  /\ \E n \in 0 .. MaxRetriesBound : job = [NoJob EXCEPT !.retries = n]
  /\ jobs = EmptyDict
  /\ lastAdd = NoAdd

NextRun ==
  \/ JobTick
  \/ JobReadBegin
  \/ JobAttemptOk
  \/ JobAttemptFail
  \/ JobWake
  \/ JobReturn
  \/ JobSkip

SpecRun == InitRun /\ [][NextRun]_vars

\* ------------------------------------------------------------- the scheduler

\* a cron expression has at most MaxCronLen characters
MaxCronLen == 11

\* run calls add_job twice: for the temperature job and for the Renogy job
AddJobCalls == 2

JobIds == {"temperature_sensor", "renogy_sensors"}

\* the cron expressions: strings of field characters and blanks
CronExprs == ListsUpTo({"*", " "}, MaxCronLen)

RECURSIVE SplitFrom(_, _, _, _)
\* str.split() from position k on: cur is the field being read, acc the fields read
SplitFrom(s, k, cur, acc) ==
  LET closed == IF cur = << >> THEN acc ELSE Append(acc, cur)
  IN  IF k > Len(s) THEN closed
      ELSE IF s[k] = " " THEN SplitFrom(s, k + 1, << >>, closed)
      ELSE SplitFrom(s, k + 1, Append(cur, s[k]), acc)

\* cron_expression.split(): the fields between runs of blanks, none of them empty
Split(s) == SplitFrom(s, 1, << >>, << >>)

\* a test that lets an expression of more than five fields through
CronFieldsAtLeast(parts) == Len(parts) >= 5

\* if len(parts) != 5: raise ValueError
CronFieldsOk(parts) == Len(parts) = 5

\* SchedulerService.add_job(func, cron_expression, job_id); CronTrigger raises a
\* ValueError of its own for a field it cannot read
AddJob ==
  /\ lastAdd.calls < AddJobCalls
  /\ \E e \in CronExprs, id \in JobIds, valid \in BOOLEAN :
       LET parts == Split(e)
           done  == [calls |-> lastAdd.calls + 1, fields |-> Len(parts), id |-> id,
                     raised |-> "none", before |-> jobs]
       IN  IF CronFieldsOk(parts) /\ valid
             THEN /\ jobs' = Put(jobs, id, SubSeq(parts, 1, 5))
                  /\ lastAdd' = done
             ELSE /\ jobs' = jobs
                  /\ lastAdd' = [done EXCEPT !.raised = "ValueError"]
  /\ UNCHANGED << readerVars, callVars, _subscribers, bus, lastEdit, held, rec, job >>

InitScheduler ==
  /\ ReaderAtRest
  /\ CallsAtRest
  /\ AppAtRest

NextScheduler == AddJob

SpecScheduler == InitScheduler /\ [][NextScheduler]_vars

\* --------------------------------------------------------- the reader factory

\* the abstract methods of RenogyReader
ReaderAbstractMethods == {"_read_implementation", "close", "device_name", "connection_type"}

\* the methods and properties each reader class defines
ReaderDefines(cls) ==
  IF cls = "BluetoothReader"
    THEN {"__init__", "device_name", "connection_type", "close", "read"}
    ELSE {"__init__", "device_name", "connection_type", "close", "read", "_read_sync"}

\* the connection_type property of each reader class
ConnectionType(cls) == IF cls = "BluetoothReader" THEN "bluetooth" ELSE "modbus"

NoReader == [status |-> "none", error |-> "none", connection_type |-> "none", max_retries |-> 0]

\* cls(..., max_retries=n): a class that leaves an abstract method of its ABC
\* undefined cannot be instantiated (TypeError); else __init__ keeps max_retries
Instantiate(cls, n) ==
  IF ReaderAbstractMethods \ ReaderDefines(cls) # {}
    THEN [NoReader EXCEPT !.status = "raised", !.error = "TypeError"]
    ELSE [status |-> "returned", error |-> "none", connection_type |-> ConnectionType(cls),
          max_retries |-> n]

\* RenogyReader.create_reader(config)
create_reader(config) ==
  IF config.class = "RenogyBluetoothSensorConfig"
    THEN Instantiate("BluetoothReader", config.max_retries)
  ELSE IF config.class = "RenogySerialSensorConfig"
    THEN Instantiate("ModbusReader", config.max_retries)
  ELSE [NoReader EXCEPT !.status = "raised", !.error = "ValueError"]

\* the configurations handed to the factory
FactoryConfigs ==
  [class : {"RenogyBluetoothSensorConfig", "RenogySerialSensorConfig", "dict"},
   device_type : {"controller", "dcc", "rover", "wanderer"},
   max_retries : RetryChoices]

InitFactory ==
  /\ ReaderAtRest
  /\ AppAtRest
  /\ fn = "none"
  /\ \E c \in FactoryConfigs : arg = [t |-> "config", v |-> c]
  /\ reading = NoValue
  /\ out = NoReader

CallCreateReader ==
  /\ fn = "none"
  /\ fn' = "create_reader"
  /\ out' = create_reader(arg.v)
  /\ UNCHANGED << readerVars, appVars, arg, reading >>

NextFactory == CallCreateReader

SpecFactory == InitFactory /\ [][NextFactory]_vars

\* ----------------------------------------------------- the temperature sensor

\* TemperatureSensor is configured with at most MaxProbes sensors
MaxProbes == 2

\* sensor_config["name"] of the k-th configured sensor
ProbeName(k) == "temp " \o ToString(k)

\* what get_temperature() does: a value, or one of the errors of w1thermsensor
TemperatureOutcomes == {"ok", "ResetValueError", "SensorNotReadyError", "W1ThermSensorError"}

\* one configured sensor as the 1-Wire bus shows it: listed by
\* get_available_sensors or not, W1ThermSensor(sensor_id=address) finding it or
\* raising, and the outcome of get_temperature()
ProbeStates == [available : BOOLEAN, found : BOOLEAN, temp : TemperatureOutcomes]

\* the except clauses around get_temperature()
CaughtTemperatureErrors == {"ResetValueError", "SensorNotReadyError", "W1ThermSensorError"}

\* a loop body whose except clauses re-raise
W1StepRaises(p) ==
  IF (p.available \/ p.found) /\ p.temp = "ok" THEN "append" ELSE "raise"

\* one pass of the loop of read: the sensor is skipped (continue), or its
\* reading is appended, or an error no clause catches leaves read
W1Step(p) ==
  IF ~p.available /\ ~p.found THEN "skip"
  ELSE IF p.temp = "ok" THEN "append"
  ELSE IF p.temp \in CaughtTemperatureErrors THEN "skip"
  ELSE "raise"

NoTemperatureRead == [pc |-> "none", i |-> 0, readings |-> << >>]

\* TemperatureSensor.read(): readings = []
TemperatureRead ==
  /\ fn = "none"
  /\ fn' = "temperature.read"
  /\ out' = [pc |-> "loop", i |-> 1, readings |-> << >>]
  /\ UNCHANGED << readerVars, appVars, arg, reading >>

\* for sensor_config in self._sensors: one pass
TemperatureReadSensor ==
  /\ fn = "temperature.read"
  /\ out.pc = "loop"
  /\ out.i <= Len(arg.v)
  /\ LET step == W1Step(arg.v[out.i])
     IN  out' = IF step = "append"
                  THEN [out EXCEPT !.readings = Append(@, Reading("temperature", ProbeName(out.i))),
                                   !.i = @ + 1]
                ELSE IF step = "skip" THEN [out EXCEPT !.i = @ + 1]
                ELSE [out EXCEPT !.pc = "raised"]
  /\ UNCHANGED << readerVars, appVars, fn, arg, reading >>

\* the loop is over: return readings
TemperatureReadReturn ==
  /\ fn = "temperature.read"
  /\ out.pc = "loop"
  /\ out.i > Len(arg.v)
  /\ out' = [out EXCEPT !.pc = "returned"]
  /\ UNCHANGED << readerVars, appVars, fn, arg, reading >>

InitTemperature ==
  /\ ReaderAtRest
  /\ AppAtRest
  /\ fn = "none"
  /\ \E ps \in ListsUpTo(ProbeStates, MaxProbes) : arg = [t |-> "probes", v |-> ps]
  /\ reading = NoValue
  /\ out = NoTemperatureRead

NextTemperature ==
  \/ TemperatureRead
  \/ TemperatureReadSensor
  \/ TemperatureReadReturn

SpecTemperature == InitTemperature /\ [][NextTemperature]_vars

\* ------------------------------------------------------------------ claims

\* read() has returned or raised
Finished == pc \in {"returned", "raised"}

C2_ReturnState ==
  pc = "returned" =>
    /\ ret.ok
    /\ result = Returned(ret.value)
    /\ cycle.failures < max_retries
    /\ cycle.attempts = cycle.failures + 1
    /\ cycle.delays = cycle.failures

C2_ReturnStep ==
  pc = "returned" => (pc' \in {"probe", "loop"} /\ cycle' = ZeroCycle)

C2_SuccessAfterFailures == []C2_ReturnState /\ [][C2_ReturnStep]_vars

C2_Witness ==
  /\ pc = "returned"
  /\ max_retries = 3
  /\ cycle.failures = 2
  /\ cycle.attempts = 3
  /\ cycle.delays = 2

\* C3: when all max_retries attempts failed, the terminal error carries the error
\* of the last attempt.
C3_TerminalCarriesLastError ==
  ( /\ pc = "raised"
    /\ result.error.kind = "RetriesExhausted"
    /\ cycle.attempts >= 1 )
  => /\ ~ret.ok
     /\ result.error.cause = ret.error
     /\ result.error.cause.kind # "None"

C3_Witness ==
  /\ pc = "raised"
  /\ result.error.kind = "RetriesExhausted"
  /\ cycle.attempts = 3
  /\ result.error.cause.kind = "NoData"

\* C4: every error read() raises is the terminal retries-exhausted error.
C4_OnlyTerminalErrorSurfaces ==
  pc = "raised" => result.error.kind = "RetriesExhausted"

\* C5: with no Bluetooth adapter present and max_retries = N >= 1, the adapter
\* failure goes through the retry policy: it is met N times, with N - 1 delays,
\* before the terminal error is raised.
C5_NoAdapterIsRetried ==
  (pc = "raised" /\ adapter = "absent" /\ max_retries >= 1)
  => /\ cycle.probes = max_retries
     /\ cycle.delays = max_retries - 1
     /\ result.error.kind = "RetriesExhausted"

\* C6: with no Bluetooth adapter present the read has failed with NoAdapter, and
\* the cycle has started no scan and no client read.
C6_NoAdapterNoScan ==
  adapter = "absent" =>
    /\ pc = "raised"
    /\ result = Raised(Err("NoAdapter", ""))
    /\ cycle.scans = 0
    /\ cycle.reads = 0

C6_Witness ==
  /\ impl = "bluetooth"
  /\ adapter = "absent"
  /\ pc = "raised"
  /\ cycle.probes = 1

\* C7: a Bluetooth attempt whose scan returned no device has failed with
\* DeviceNotFound and has not created the device wrapper nor called read_device.
C7_NoDeviceNoClientRead ==
  device = "None" =>
    /\ apc = "done"
    /\ ret = Fail(Err("DeviceNotFound", ""))
    /\ att.wraps = 0
    /\ att.reads = 0

C7_Witness ==
  /\ impl = "bluetooth"
  /\ device = "None"
  /\ att.scans = 1
  /\ pc = "sleep"

\* C8: a finished Bluetooth attempt whose client read answered has failed when
\* the answer reports failure or holds no parsed data, with ReadFailed in the
\* first case and EmptyData in the second; and the mapping a successful attempt
\* of the reader returned holds at least one device data field.
C8_FailureOrData ==
  (UsesBluetooth(impl) /\ apc = "done" /\ bleResult.error # "unset") =>
    /\ (~bleResult.success \/ DOMAIN bleResult.parsed = {}) => ~ret.ok
    /\ ~bleResult.success => ret.error.kind = "ReadFailed"
    /\ (bleResult.success /\ DOMAIN bleResult.parsed = {}) => ret.error.kind = "EmptyData"
    /\ ret.ok <=> (bleResult.success /\ DOMAIN bleResult.parsed # {})
    /\ (ret.ok /\ impl = "bluetooth") => DataFields(ret.value) # {}

C8_Witness ==
  /\ impl = "bluetooth"
  /\ apc = "done"
  /\ bleResult.success
  /\ DOMAIN bleResult.parsed = {}
  /\ ret = Fail(Err("EmptyData", ""))

\* C9: a Modbus attempt that created its serial client has, when it returns or
\* raises, closed it exactly once, and it never closes it more than once.
C9_ClosedExactlyOnce ==
  /\ client.closes <= 1
  /\ (impl = "modbus" /\ apc = "done" /\ client.created) => client.closes = 1
  /\ (apc \in {"connect", "regs", "temp", "status", "finish", "finally"})
       => client.closes = 0

C9_Witness ==
  /\ impl = "modbus"
  /\ apc = "done"
  /\ client.closes = 1
  /\ ret = Fail(Err("Unexpected", "connect"))

\* C10: at most one serial connection is open, and none is open outside an
\* attempt in progress: not before the first attempt, not during a delay, not
\* between attempts, not after read() returned or raised.
C10_PortOpenOnlyInAttempt ==
  /\ openPorts <= 1
  /\ (pc # "await" \/ apc = "done") => openPorts = 0

C10_Witness ==
  /\ impl = "modbus"
  /\ pc = "sleep"
  /\ client.connects = 1
  /\ exc.kind = "NoData"
  /\ openPorts = 0

\* the Modbus attempt got past connect() in this attempt
Connected == impl = "modbus" /\ att.connect = "True"

\* the register loop, the temperature step and the status step are over
ReadsOver == apc \in {"finish", "finally", "done"}

\* C11: a Modbus attempt whose connect() returned False raises ConnectFailed at
\* once: it has issued no holding-register read, it has called connect() exactly
\* once, and ConnectFailed is what the attempt fails with.
C11_ConnectFailedAtOnce ==
  (impl = "modbus" /\ att.connect = "False") =>
    /\ apc \in {"finally", "done"}
    /\ att.regReads = 0
    /\ client.connects = 1
    /\ apc = "finally" => exc = Err("ConnectFailed", "")
    /\ apc = "done" => ret = Fail(Err("ConnectFailed", ""))

C11_Witness ==
  /\ impl = "modbus"
  /\ att.connect = "False"
  /\ apc = "done"
  /\ pc = "sleep"
  /\ last_error = Err("ConnectFailed", "")

\* C12: in a connected Modbus attempt every register of the map is read once,
\* whatever the reads before it gave, and the data holds the field of a map
\* register exactly when that register was read successfully; the same is true
\* of the mapping the attempt returns.
C12_FailedRegistersAbsent ==
  Connected =>
    /\ apc = "regs" => att.mapReads = idx - 1
    /\ apc \in {"temp", "status", "finish", "finally", "done"}
         => att.mapReads = Len(Registers)
    /\ \A i \in 1 .. Len(Registers) :
         (Registers[i].field \in DOMAIN data) <=> (Registers[i].field \in att.okRegs)
    /\ (apc = "done" /\ ret.ok) =>
         \A i \in 1 .. Len(Registers) :
           (Registers[i].field \in DOMAIN ret.value) <=> (Registers[i].field \in att.okRegs)

C12_Witness ==
  /\ Connected
  /\ apc = "done"
  /\ ret.ok
  /\ att.mapReads = Len(Registers)
  /\ att.okRegs = {"battery_voltage"}
  /\ "battery_percentage" \notin DOMAIN ret.value
  /\ read_errors >= 1

\* C13: in a connected Modbus attempt a failed read of the temperature register
\* is followed by the read of the status register and leaves both temperature
\* fields out without failing an attempt that read something else; and the two
\* temperature fields are in the data, and in the mapping returned, together or
\* not at all.
C13_TemperatureTogether ==
  Connected =>
    /\ ("controller_temperature" \in DOMAIN data) <=> ("battery_temperature" \in DOMAIN data)
    /\ ("controller_temperature" \in DOMAIN data) <=> (att.temp = "ok")
    /\ att.temp \in {"error", "raise"} =>
         /\ apc \in {"status", "finish", "finally", "done"}
         /\ ReadsOver => att.status # "unset"
         /\ (apc = "done" /\ (att.okRegs # {} \/ att.status = "ok")) => ret.ok
    /\ (apc = "done" /\ ret.ok) =>
         /\ ("controller_temperature" \in DOMAIN ret.value)
              <=> ("battery_temperature" \in DOMAIN ret.value)
         /\ ("controller_temperature" \in DOMAIN ret.value) <=> (att.temp = "ok")

C13_Witness ==
  /\ Connected
  /\ att.temp = "raise"
  /\ att.status = "ok"
  /\ apc = "done"
  /\ ret.ok
  /\ "charging_status" \in DOMAIN ret.value
  /\ "battery_temperature" \notin DOMAIN ret.value

\* C14: in a connected Modbus attempt whose read of the status register failed,
\* charging_status is left out, read_errors counts the failed reads of the map
\* and of the temperature register only, and the attempt returns whenever a map
\* register or the temperature register was read.
C14_StatusSilentlyOmitted ==
  (Connected /\ att.status \in {"error", "raise"}) =>
    /\ "charging_status" \notin DOMAIN data
    /\ read_errors = (Len(Registers) - Cardinality(att.okRegs))
                       + (IF att.temp = "ok" THEN 0 ELSE 1)
    /\ (apc = "done" /\ (att.okRegs # {} \/ att.temp = "ok")) =>
         /\ ret.ok
         /\ "charging_status" \notin DOMAIN ret.value

C14_Witness ==
  /\ Connected
  /\ att.status = "raise"
  /\ att.okRegs = {"battery_percentage", "battery_voltage"}
  /\ att.temp = "ok"
  /\ read_errors = 0
  /\ apc = "done"
  /\ ret.ok

\* the data fields a connected attempt read, by what the device answered
FieldsRead ==
  att.okRegs
    \cup (IF att.temp = "ok" THEN {"controller_temperature", "battery_temperature"} ELSE {})
    \cup (IF att.status = "ok" THEN {"charging_status"} ELSE {})

\* C15: a finished connected Modbus attempt has failed, with NoData, exactly
\* when every read of it failed; otherwise it returned a mapping holding the
\* fields read and the four metadata keys, and nothing else.
C15_NoDataIffNothingRead ==
  (Connected /\ apc = "done") =>
    /\ FieldsRead = {} => ret = Fail(Err("NoData", ""))
    /\ FieldsRead # {} =>
         /\ ret.ok
         /\ DataFields(ret.value) = FieldsRead
         /\ DOMAIN ret.value
              = FieldsRead \cup {"__device", "__client", "__connect_ms", "__total_ms"}

C15_Witness ==
  /\ Connected
  /\ apc = "done"
  /\ att.okRegs = {}
  /\ att.temp = "error"
  /\ att.status = "ok"
  /\ ret.ok
  /\ DataFields(ret.value) = {"charging_status"}

\* from_raw_data has built the reading
Normalized == fn \in {"from_raw_data", "to_dict"}

\* C16: a field SolarReading declares holds the value the raw data has under
\* its name, and None when the raw data has no such key; to_dict leaves out
\* every declared field the raw data lacks, keeps every one the raw data gives
\* a value other than None (0 included) with that value, and leaves out
\* read_duration_ms when none was given.
C16_AbsentFieldsStayUnset ==
  /\ Normalized =>
       \A k \in SolarFieldNames :
         /\ k \notin DOMAIN arg.data => reading.fields[k] = NoneVal
         /\ k \in DOMAIN arg.data => reading.fields[k] = arg.data[k]
  /\ fn = "to_dict" =>
       /\ \A k \in SolarFieldNames :
            /\ k \notin DOMAIN arg.data => k \notin DOMAIN out
            /\ (k \in DOMAIN arg.data /\ arg.data[k] # NoneVal)
                 => (k \in DOMAIN out /\ out[k] = arg.data[k])
            /\ (k \in DOMAIN arg.data /\ arg.data[k] = NoneVal) => k \notin DOMAIN out
       /\ ("read_duration_ms" \in DOMAIN out) <=> (arg.read_duration_ms # NoneVal)

C16_Witness ==
  /\ fn = "to_dict"
  /\ DOMAIN arg.data = {"battery_percentage", "__device"}
  /\ arg.data["battery_percentage"] = IntVal(0)
  /\ reading.fields["battery_voltage"] = NoneVal
  /\ DOMAIN out = {"type", "name", "read_time", "battery_percentage"}
  /\ out["battery_percentage"] = IntVal(0)

\* the keys the transports add for themselves, and the key of the BLE library
MetadataKeys ==
  {"__device", "__client", "__scan_ms", "__connect_ms", "__total_ms", "function"}

\* C17: whatever metadata keys the raw data holds, the reading has no attribute
\* of such a name, and the dictionary of to_dict has no such key: its keys are
\* type, name, read_time, read_duration_ms and declared fields only.
C17_NoMetadataInReading ==
  /\ Normalized =>
       /\ DOMAIN reading.fields \cap MetadataKeys = {}
       /\ DOMAIN reading.fields = SolarFieldNames
  /\ fn = "to_dict" =>
       /\ DOMAIN out \cap MetadataKeys = {}
       /\ \A k \in DOMAIN out : ~StartsWithUnderscore(k)
       /\ DOMAIN out \subseteq
            SolarFieldNames \cup {"type", "name", "read_time", "read_duration_ms"}

C17_Witness ==
  /\ fn = "to_dict"
  /\ arg.data = BluetoothData(Put(ParsedVoltage, "function", StrVal("READ")))
  /\ DOMAIN out = {"type", "name", "read_time", "read_duration_ms", "battery_voltage"}

\* the value of a byte read as sign and magnitude: bit 7 the sign, bits 0-6 the size
SignMagnitude(b) == IF b >= 128 THEN 128 - b ELSE b

\* C18: for every v in 0..255, _to_signed_8bit(v) is -(v & 0x7F) when bit 7 of v
\* is set and v otherwise; the results are exactly the integers -127..127, and
\* 0x80 gives 0.
C18_SignedMagnitude ==
  fn = "_to_signed_8bit" =>
    /\ arg >= 128 => out = -(arg - 128)
    /\ arg < 128 => out = arg
    /\ out \in -127 .. 127
    /\ arg = 128 => out = 0
    /\ {_to_signed_8bit(v) : v \in 0 .. 255} = -127 .. 127

C18_Witness ==
  /\ fn = "_to_signed_8bit"
  /\ arg = 128
  /\ out = 0

\* C19: for every 16-bit raw value, _parse_temperature_register gives the
\* sign-and-magnitude value of the high byte as the controller temperature and
\* that of the low byte as the battery temperature; replacing one byte by any
\* other leaves the temperature of the other byte as it is.
C19_TemperatureBytesIndependent ==
  fn = "_parse_temperature_register" =>
    LET high == arg \div 256
        low  == arg % 256
    IN  /\ out = << SignMagnitude(high), SignMagnitude(low) >>
        /\ \A b \in 0 .. 255 :
             /\ _parse_temperature_register(high * 256 + b)[1] = out[1]
             /\ _parse_temperature_register(b * 256 + low)[2] = out[2]

C19_Witness ==
  /\ fn = "_parse_temperature_register"
  /\ arg = 6538
  /\ out = << 25, -10 >>

\* C20: for every 16-bit value of the status register, the status step stores
\* charging_status and nothing else; the name is that of the low byte in the
\* table for the codes 0..6, and unknown_<c> for every other low byte c.
C20_StatusFromLowByte ==
  fn = "status" =>
    LET c == arg % 256
    IN  /\ DOMAIN out = {"charging_status"}
        /\ out["charging_status"].t = "str"
        /\ out["charging_status"].v =
             CASE c = 0 -> "deactivated"
               [] c = 1 -> "activated"
               [] c = 2 -> "mppt"
               [] c = 3 -> "equalizing"
               [] c = 4 -> "boost"
               [] c = 5 -> "floating"
               [] c = 6 -> "current_limiting"
               [] OTHER -> "unknown_" \o ToString(c)

C20_Witness ==
  /\ fn = "status"
  /\ arg = 263
  /\ out = Put(EmptyMap, "charging_status", StrVal("unknown_7"))

\* C21: for every register of the map and every 16-bit raw value, the field
\* the register loop stores is the register's own, and its value is raw itself,
\* an integer, when the scale is 1, raw tenths when the scale is 0.1 and raw
\* hundredths when the scale is 0.01, as a float of at most two decimals.
C21_ScaledByRegister ==
  fn = "register" =>
    LET r   == REGISTER_MAP[out.reg]
        val == out.data[r.field]
    IN  /\ DOMAIN out.data = {r.field}
        /\ r.scale \in {100, 10, 1}
        /\ r.scale = 100 => val = IntVal(arg)
        /\ r.scale = 10  => (val.t = "float" /\ val.v = 10 * arg)
        /\ r.scale = 1   => (val.t = "float" /\ val.v = arg)
        /\ r.field \in {"battery_percentage", "load_power", "pv_power"} => val = IntVal(arg)
        /\ r.field \in {"battery_voltage", "load_voltage", "pv_voltage"}
             => val = FloatVal(10 * arg)
        /\ r.field \in {"battery_current", "load_current", "pv_current"}
             => val = FloatVal(arg)

C21_Witness ==
  /\ fn = "register"
  /\ arg = 65535
  /\ out.data = Put(EmptyMap, "battery_voltage", FloatVal(655350))

\* C22: when read() of the sensor has returned, what it returned is a list of
\* exactly one reading, of type solar; when it has failed it has raised and
\* returned no list; and every attempt of the sensor that succeeded gave such
\* a list of one.
C22_ExactlyOneReading ==
  impl = "sensor" =>
    /\ pc = "returned" =>
         /\ result.status = "returned"
         /\ Len(result.value) = 1
         /\ result.value[1].type = "solar"
         /\ DOMAIN result.value[1].fields = SolarFieldNames
    /\ pc = "raised" => result.status = "raised"
    /\ result.status = "returned" => pc = "returned"
    /\ (apc = "done" /\ ret.ok) => Len(ret.value) = 1

C22_Witness ==
  /\ impl = "sensor"
  /\ pc = "returned"
  /\ cycle.failures = 1
  /\ Len(result.value) = 1
  /\ result.value[1].fields["battery_voltage"] = FloatVal(1320)

\* the handlers the publish has called, in the order of the calls
Called == [k \in 1 .. Len(bus.delivered) |-> bus.delivered[k].handler]

\* C26: publish never raises; a handler that raised is followed by the call of
\* the next handler of the list; and when publish has returned, every handler of
\* the list has been called, those after a raising handler included.
C26_RaisingHandlerIsolated ==
  /\ bus.result # "raised"
  /\ bus.pc = "delivering" => bus.i = Len(bus.delivered) + 1
  /\ bus.result = "returned" =>
       /\ Len(bus.delivered) = Len(bus.atBegin)
       /\ \A k \in 1 .. Len(bus.delivered) :
            (bus.delivered[k].outcome = "raise" /\ k < Len(bus.atBegin))
              => bus.delivered[k + 1].handler = bus.atBegin[k + 1]

C26_Witness ==
  /\ bus.result = "returned"
  /\ Len(bus.delivered) = 2
  /\ bus.delivered[1].outcome = "raise"
  /\ bus.delivered[2].outcome = "return"
  /\ bus.delivered[2].handler = "_handle_reading"

\* C27: after unsubscribe(t, h) of a handler that was in the list of t once, h
\* is no longer in that list, the other lists are as before, and a publish of t
\* begun since calls no h; after unsubscribe(t, h) of a handler that was not in
\* the list of t, or of a type without a list, the subscriptions are as before;
\* unsubscribe does not raise.
C27_UnsubscribedNotInvoked ==
  lastEdit.op = "unsubscribe" =>
    LET t   == lastEdit.type
        h   == lastEdit.handler
        was == Get(lastEdit.before, t, << >>)
    IN  /\ ~lastEdit.raised
        /\ Count(h, was) = 0 => _subscribers = lastEdit.before
        /\ Count(h, was) = 1 =>
             /\ Count(h, _subscribers[t]) = 0
             /\ Len(_subscribers[t]) = Len(was) - 1
             /\ \A u \in DOMAIN lastEdit.before \ {t} :
                  _subscribers[u] = lastEdit.before[u]
             /\ (bus.afterEdit /\ bus.type = t) => Count(h, Called) = 0

C27_Witness ==
  /\ lastEdit.op = "unsubscribe"
  /\ lastEdit.handler = "handler"
  /\ Get(lastEdit.before, lastEdit.type, << >>) = << "handler", "_handle_reading" >>
  /\ bus.afterEdit
  /\ bus.type = lastEdit.type
  /\ bus.result = "returned"
  /\ Called = << "_handle_reading" >>

\* C28: a publish of t calls the handlers of the list of t as it was when the
\* publish began, one call per entry of the list and in the order of the list,
\* each with the data published, and calls nothing else; a publish of a type
\* with no list or an empty list calls nothing; publish returns, it never raises.
C28_OncePerSubscription ==
  /\ bus.result # "raised"
  /\ bus.pc = "delivering" =>
       /\ bus.atBegin = Get(_subscribers, bus.type, << >>)
       /\ bus.i = Len(Called) + 1
       /\ Len(Called) <= Len(bus.atBegin)
       /\ \A k \in 1 .. Len(Called) : k <= Len(bus.atBegin) => Called[k] = bus.atBegin[k]
  /\ bus.result = "returned" => Called = bus.atBegin
  /\ \A k \in 1 .. Len(bus.delivered) : bus.delivered[k].data = bus.data
  /\ (bus.afterEdit /\ bus.type # "none") =>
       bus.atBegin = Get(_subscribers, bus.type, << >>)

C28_Witness ==
  /\ bus.result = "returned"
  /\ bus.type = "test.event"
  /\ bus.atBegin = << "handler", "handler" >>
  /\ Called = << "handler", "handler" >>
  /\ Get(_subscribers, SENSOR_READING_EVENT, << >>) = << "_handle_reading" >>

\* C28 as stated: when publish has returned, every handler in the list of the
\* type has been called exactly once.
C28_EachHandlerOnce ==
  bus.result = "returned" =>
    \A h \in Handlers : Count(h, bus.atBegin) >= 1 => Count(h, Called) = 1

\* C25 as stated: the fields of a constructed reading never change, whatever
\* is done with it: to_dict, record, publication, consumer handling, or an
\* assignment to one of its fields.
C25_ReadingNeverChanges == [][held' = held]_vars

\* C29: record publishes one event per reading of its list, in the order of the
\* list, each under "sensor.reading" and carrying its reading; every publish the
\* bus runs during record is one of these; an empty list publishes nothing.
C29_OneEventPerReading ==
  /\ rec.pc \in {"loop", "done"} =>
       /\ Len(rec.published) = rec.i - 1
       /\ Len(rec.published) <= Len(rec.readings)
       /\ \A k \in 1 .. Len(rec.published) :
            k <= Len(rec.readings) =>
              rec.published[k] = [type |-> SENSOR_READING_EVENT, data |-> rec.readings[k]]
  /\ rec.pc = "done" => Len(rec.published) = Len(rec.readings)
  /\ (rec.pc = "loop" /\ bus.pc = "delivering") =>
       /\ rec.published # << >>
       /\ bus.type = rec.published[Len(rec.published)].type
       /\ bus.data = rec.published[Len(rec.published)].data

C29_Witness ==
  /\ rec.pc = "done"
  /\ Len(rec.readings) = 2
  /\ rec.readings[1] # rec.readings[2]
  /\ rec.published = << [type |-> "sensor.reading", data |-> rec.readings[1]],
                        [type |-> "sensor.reading", data |-> rec.readings[2]] >>
  /\ bus.result = "returned"
  /\ Called = << "_handle_reading" >>

\* the readings a finished job must have published: those of the sensors read well
RECURSIVE ReadingsOfOk(_, _)
ReadingsOfOk(read, k) ==
  IF k > Len(read) THEN << >>
  ELSE (IF read[k] = "ok" THEN JobReadings(k) ELSE << >>) \o ReadingsOfOk(read, k + 1)

C24_DelayBlocksNoOtherSensor ==
  job.pc = "sleeping" =>
    \A k \in 1 .. MaxSensors : (k # job.i /\ k > Len(job.read)) => CanStartRead(job, k)

\* C30: an add_job whose cron expression does not split into exactly five
\* fields raises ValueError and leaves the registered jobs as they were.
C30_BadCronRejected ==
  (lastAdd.id # "none" /\ lastAdd.fields # 5) =>
    /\ lastAdd.raised = "ValueError"
    /\ jobs = lastAdd.before

C30_Witness ==
  /\ lastAdd.fields = 6
  /\ lastAdd.raised = "ValueError"
  /\ lastAdd.id = "renogy_sensors"
  /\ DOMAIN lastAdd.before = {"renogy_sensors"}
  /\ jobs = lastAdd.before

\* C31 as stated: the factory gives a Bluetooth configuration a reader of
\* connection type "bluetooth" and a Serial configuration one of connection type
\* "modbus", each with the max_retries of the configuration, and rejects any
\* other configuration with ValueError.
C31_FactoryYieldsMatchingReader ==
  fn = "create_reader" =>
    /\ arg.v.class = "RenogyBluetoothSensorConfig" =>
         /\ out.status = "returned"
         /\ out.connection_type = "bluetooth"
         /\ out.max_retries = arg.v.max_retries
    /\ arg.v.class = "RenogySerialSensorConfig" =>
         /\ out.status = "returned"
         /\ out.connection_type = "modbus"
         /\ out.max_retries = arg.v.max_retries
    /\ arg.v.class = "dict" =>
         /\ out.status = "raised"
         /\ out.error = "ValueError"

\* the k-th configured sensor gives a temperature
ProbeReadable(p) == (p.available \/ p.found) /\ p.temp = "ok"

RECURSIVE ReadableNames(_, _)
\* the names of the readable sensors among the first n, in configuration order
ReadableNames(ps, n) ==
  IF n = 0 THEN << >>
  ELSE ReadableNames(ps, n - 1) \o
       (IF ProbeReadable(ps[n]) THEN << ProbeName(n) >> ELSE << >>)

\* C32: TemperatureSensor.read() does not raise, whichever configured sensors
\* are missing, give the reset value, are not ready or fail to read; after every
\* pass of its loop the readings are those of the readable sensors passed so
\* far, one each and in configuration order, so a sensor that is skipped holds
\* up no later one; the list returned is that of all the readable sensors.
C32_BadProbeSkipped ==
  fn = "temperature.read" =>
    /\ out.pc # "raised"
    /\ out.i <= Len(arg.v) + 1
    /\ Len(out.readings) <= out.i - 1
    /\ [k \in 1 .. Len(out.readings) |-> out.readings[k].v.name]
         = ReadableNames(arg.v, IF out.i - 1 <= Len(arg.v) THEN out.i - 1 ELSE Len(arg.v))
    /\ \A k \in 1 .. Len(out.readings) : out.readings[k].v.type = "temperature"
    /\ out.pc = "returned" => out.i = Len(arg.v) + 1

C32_Witness ==
  /\ fn = "temperature.read"
  /\ out.pc = "returned"
  /\ Len(arg.v) = 2
  /\ ~arg.v[1].available
  /\ ~arg.v[1].found
  /\ arg.v[2].available
  /\ out.readings = << Reading("temperature", ProbeName(2)) >>

\* C33: read() sleeps only after an attempt n that failed, with n < max_retries;
\* a cycle never sleeps more often than it has failed; once the last of
\* max_retries attempts has failed no delay is slept, so a cycle in which all
\* max_retries attempts failed ends after exactly max_retries - 1 delays.
C33_DelayOnlyBetweenAttempts ==
  /\ pc = "sleep" =>
       /\ apc = "done"
       /\ ~ret.ok
       /\ attempt < max_retries
       /\ cycle.failures = attempt
       /\ cycle.delays = attempt - 1
  /\ cycle.delays <= cycle.failures
  /\ (pc \in {"loop", "raised"} /\ max_retries >= 1 /\ cycle.failures = max_retries) =>
       cycle.delays = max_retries - 1

C33_Witness ==
  /\ pc = "raised"
  /\ max_retries = 3
  /\ cycle.failures = 3
  /\ cycle.delays = 2
  /\ result.error.kind = "RetriesExhausted"

\* a read cycle is over with a value (Success) or with the terminal error (Exhausted)
SuccessOrExhausted ==
  \/ pc = "returned"
  \/ pc = "raised" /\ result.error.kind = "RetriesExhausted"

C34_CycleState ==
  /\ attempt <= (IF max_retries > 0 THEN max_retries ELSE 0)
  /\ Finished => SuccessOrExhausted

C34_CycleStep ==
  /\ attempt' # attempt =>
       \/ attempt' = 0 /\ Finished
       \/ attempt' = attempt + 1 /\ (attempt = 0 \/ ~ret.ok)
  /\ (~Finished /\ Finished') => pc = "await" \/ (pc = "loop" /\ last_error = ret.error)

\* C34 as stated: every read cycle moves from attempt n to Success, to attempt
\* n + 1 after a failure of attempt n, or to Exhausted, with n at most
\* max_retries, and ends only in Success or Exhausted.
C34_CycleStateMachine == []C34_CycleState /\ [][C34_CycleStep]_vars

\* C37 as stated: a read() of a reader with max_retries <= 0 makes no attempt
\* (no scan, no connect, no register read), sleeps no delay, returns no value,
\* and what it raises is the terminal error.
C37_NoRetriesTerminalError ==
  max_retries <= 0 =>
    /\ cycle.attempts = 0
    /\ cycle.scans = 0
    /\ cycle.reads = 0
    /\ cycle.delays = 0
    /\ ~client.created
    /\ att.regReads = 0
    /\ pc # "returned"
    /\ pc = "raised" => result.error.kind = "RetriesExhausted"

\* C35: at most one execution of the Renogy job runs at a time, a trigger that
\* fires meanwhile starting none; and while the read of a sensor is in flight
\* (attempting, or sleeping between attempts) it is the read of the one sensor
\* the loop is at, the read cycle of every sensor before it is over and that of
\* no sensor after it has begun.
C35_OneReadInFlight ==
  /\ job.instances <= 1
  /\ job.instances = 1 <=> job.pc \in {"next", "attempting", "sleeping"}
  /\ job.pc \in {"attempting", "sleeping"} =>
       /\ job.i \in 1 .. MaxSensors
       /\ Len(job.read) = job.i - 1
       /\ job.attempt >= 1

C35_Witness ==
  /\ job.skipped >= 1
  /\ job.instances = 1
  /\ job.pc = "sleeping"
  /\ job.i = 2
  /\ job.read = << "failed" >>

\* C36: after read() was cancelled during a Modbus attempt, the cycle has
\* ended with the cancellation: the attempt counts and last_error are those of
\* the moment of the cancellation, no delay is slept and no attempt started;
\* the attempt itself goes on where it was, and when it is over a connected
\* one has made every register read of the routine and has closed the
\* connection, once.
C36_CancelledAttemptRunsOut ==
  cycle.cancel # "none" =>
    /\ pc = "cancelled"
    /\ result = Raised(Err("Cancelled", ""))
    /\ attempt = cycle.attempts
    /\ cycle.delays = attempt - 1
    /\ last_error.kind # "Cancelled"
    /\ apc \in {"new", "connect", "regs", "temp", "status", "finish", "finally", "done"}
    /\ apc = "done" =>
         /\ ~client.open
         /\ openPorts = 0
         /\ client.created => client.closes = 1
         /\ att.connect = "True" =>
              /\ att.mapReads = Len(Registers)
              /\ att.regReads = Len(Registers) + 2

C36_Witness ==
  /\ cycle.cancel = "regs"
  /\ pc = "cancelled"
  /\ apc = "done"
  /\ attempt = 1
  /\ max_retries = 3
  /\ att.regReads = Len(Registers) + 2
  /\ client.closes = 1
  /\ ~client.open

\* C38 as stated: when publish has returned, every handler that was subscribed
\* to the type (once) when the publish began has been called exactly once,
\* whatever the handlers did with the subscriptions meanwhile.
C38_HandlersAtBeginCalledOnce ==
  bus.result = "returned" =>
    \A h \in Handlers : Count(h, bus.atBegin) = 1 => Count(h, Called) = 1

\* what publish would deliver to, for every event type
Delivery(subs) == [t \in EventTypes |-> Get(subs, t, << >>)]

\* this step is the unsubscribe(t, h) that follows a subscribe(t, h) at once
PairCompleted ==
  /\ lastEdit.op = "subscribe"
  /\ ~bus.afterEdit
  /\ lastEdit'.op = "unsubscribe"
  /\ lastEdit'.type = lastEdit.type
  /\ lastEdit'.handler = lastEdit.handler

\* C39 as stated: subscribe(t, h) followed at once by unsubscribe(t, h) leaves,
\* for every event type, the handlers publish calls, their number of calls and
\* their order as they were before the two calls.
C39_PairRestoresDelivery ==
  [][PairCompleted => Delivery(_subscribers') = Delivery(lastEdit.before)]_vars

=============================================================================
